---- MODULE Spec2Model ----
(***************************************************************************)
(* Model of quack.go: a Client around an embedded database engine that     *)
(* writes a snapshot archive on Close, rotates the snapshot directory and  *)
(* can roll the database back to a retained snapshot.                      *)
(*                                                                         *)
(* The engine (catalog, transactions, EXPORT/IMPORT), the archive codec    *)
(* and the filesystem are modelled by their interface: a call succeeds     *)
(* with its documented effect or fails with no effect.  Snapshot names are *)
(* ULIDs; they are modelled by the natural numbers in generation order,    *)
(* which is the order sort.Strings gives the ULID strings.                 *)
(*                                                                         *)
(* Four specifications share every action and differ in Init only:         *)
(*   Spec          one caller, every input, retention 1..MaxN              *)
(*   SpecConc      two concurrent callers of one Client                    *)
(*   SpecScenario  one caller, the inputs of Test_Client, retention 3      *)
(*   SpecFair      two concurrent callers under fair scheduling            *)
(***************************************************************************)
EXTENDS Integers, Sequences, FiniteSets, TLC

\* ---------------------------------------------------------------- bounds
MaxN == 2          \* Spec: retention limits tried, 1..MaxN
MaxId == 3         \* Spec: snapshot identifiers generated in one behaviour
MaxRows == 3       \* Spec: rows held by the database
ConcMaxId == 2     \* SpecConc: snapshot identifiers generated
ConcMaxRows == 1   \* SpecConc: rows held by the database
FairMaxId == 1     \* SpecFair: snapshot identifiers generated
FairMaxRows == 1   \* SpecFair: rows held by the database

\* ---------------------------------------------------------------- inputs
Records == {"a", "b"}
TableNames == {"t", "u"}
TableOrder == <<"t", "u">>          \* order in which SHOW TABLES lists them
Inserts == {<<"t", <<"a">>>>, <<"u", <<"a", "b">>>>}
RollbackArgs == 0..(MaxN + 1)

VARIABLES
    tables,     \* engine catalog of <root>/database.ddb: table name -> bag of rows
    snapshot,   \* <root>/snapshot: entry name -> file content
    ulid,       \* last identifier handed out by ulid.MustNewDefault
    n,          \* Client.n, the retention limit
    dbOpen,     \* Client.db / Client.connecter not yet closed
    mux,        \* Client.mux: 0 when free, else the caller holding it
    pc,         \* position of each caller
    call,       \* the operation a caller is in, with its arguments
    f,          \* Close: the snapshot file it created
    matches,    \* rotate / RollbackSnapshot: the listing it took
    err,        \* the step whose error the operation returned ("" is nil)
    closeHist,  \* history: catalog captured by the latest successful Closes
    closes,     \* history: number of successful Closes
    scen,       \* history: progress through the scenario of Test_Client
    temp,       \* the temporary file or directory an operation has on disk
    pre,        \* history: the catalog when the caller's operation took the gate
    env         \* what the callers of this behaviour do: their Insert inputs,
                \* RollbackSnapshot arguments, the script they follow (if
                \* any), and the bounds on them

vars == <<tables, snapshot, ulid, n, dbOpen, mux, pc, call, f, matches,
          err, temp, pre, closeHist, closes, scen, env>>

\* the goroutines that may call the Client; one that is "absent" never does
Callers == {1, 2}

\* ------------------------------------------------------------- data model
NoTables == <<>>
EmptyFile == [complete |-> FALSE, data |-> NoTables]
NoCall == [op |-> "", table |-> "", stream |-> <<>>, n |-> 0]
NoTemp == ""

Min(x, y) == IF x <= y THEN x ELSE y

BagOf(s) == [r \in Records |-> Cardinality({i \in DOMAIN s : s[i] = r})]

RowCount(tbl, t) ==
    IF t \in DOMAIN tbl THEN tbl[t]["a"] + tbl[t]["b"] ELSE 0

\* rows held by the whole database
Stored(tbl) == RowCount(tbl, "t") + RowCount(tbl, "u")

RECURSIVE SortStrings(_)
SortStrings(S) ==
    IF S = {} THEN <<>>
    ELSE LET m == CHOOSE x \in S : \A y \in S : x <= y
         IN <<m>> \o SortStrings(S \ {m})

\* listDir: the entry names, sorted ascending
listDir(dir) == SortStrings(DOMAIN dir)

Range(s) == {s[i] : i \in DOMAIN s}

\* rotate: the entries it sets out to remove, in order: matches[n:]
\* (_OffByOne: a faulty variant that keeps one entry more; _OnePerRun: one
\*  that removes a single entry in each run)
rotateVictims_OffByOne(m, keep) ==
    IF Len(m) > keep + 1 THEN SubSeq(m, keep + 2, Len(m)) ELSE <<>>
rotateVictims_OnePerRun(m, keep) ==
    IF Len(m) > keep THEN <<m[keep + 1]>> ELSE <<>>
rotateVictims(m, keep) ==
    IF Len(m) > keep THEN SubSeq(m, keep + 1, Len(m)) ELSE <<>>

\* the directory once the first k victims are removed
RemoveFirst(dir, victims, k) ==
    [x \in DOMAIN dir \ {victims[i] : i \in 1..k} |-> dir[x]]

\* showTables: the catalog's table names
showTables(tbl) == SelectSeq(TableOrder, LAMBDA x : x \in DOMAIN tbl)

\* tableExists
tableExists(tbl, t) == t \in Range(showTables(tbl))

\* insert: CREATE TABLE ... AS SELECT, or COPY ... FROM, of the staged stream
\* (_Replaces: a faulty variant that recreates a table that exists)
insert_Replaces(tbl, t, s) ==
    [x \in DOMAIN tbl \cup {t} |-> IF x = t THEN BagOf(s) ELSE tbl[x]]
insert(tbl, t, s) ==
    IF tableExists(tbl, t)
    THEN [tbl EXCEPT ![t] = [r \in Records |-> @[r] + BagOf(s)[r]]]
    ELSE [x \in DOMAIN tbl \cup {t} |-> IF x = t THEN BagOf(s) ELSE tbl[x]]

\* dedup: CREATE OR REPLACE TABLE t AS SELECT DISTINCT * FROM t
\* (_DropsRepeated: a faulty variant that keeps only the rows held once)
dedup_DropsRepeated(tbl, t) ==
    [tbl EXCEPT ![t] = [r \in Records |-> IF @[r] = 1 THEN 1 ELSE 0]]
dedup(tbl, t) ==
    [tbl EXCEPT ![t] = [r \in Records |-> IF @[r] > 0 THEN 1 ELSE 0]]

\* dumpAndZip: the archive of EXPORT DATABASE
dumpAndZip(tbl) == [complete |-> TRUE, data |-> tbl]

\* the directory once the open file x holds content; a file already removed
\* from the directory stays removed
Written(dir, x, content) ==
    [y \in DOMAIN dir |-> IF y = x THEN content ELSE dir[y]]

\* the catalog after the first k DROP TABLE statements of a transaction
DropTables(tbl, names, k) ==
    [x \in DOMAIN tbl \ {names[i] : i \in 1..k} |-> tbl[x]]

\* what the catalog is once the transaction ends: Commit installs the
\* transaction's view, the deferred Rollback discards it
\* (_NoRollback: a faulty variant running the DROPs outside a transaction;
\*  _CommitsAfterImport: one that holds the commit back until the import)
txEnd_NoRollback(tbl, txView, committed) == txView
txEnd_CommitsAfterImport(tbl, txView, committed) == tbl
txEnd(tbl, txView, committed) == IF committed THEN txView ELSE tbl

\* RollbackSnapshot's check of its argument: n > c.n
\* (_OffByOne: a faulty variant accepting n = c.n + 1)
tooFar_OffByOne(k, keep) == k > keep + 1
tooFar(k, keep) == k > keep

\* unzipAndLoad: the catalog IMPORT DATABASE installs from the archive, and
\* the snapshot directory afterwards (the archive is opened for reading)
\* (_Consumes: a faulty variant that removes the archive it loaded)
unzipAndLoad_Consumes(dir, file) ==
    [tables |-> dir[file].data, dir |-> [x \in DOMAIN dir \ {file} |-> dir[x]]]
unzipAndLoad(dir, file) == [tables |-> dir[file].data, dir |-> dir]

\* the snapshot RollbackSnapshot selects: matches[len(matches)-n] of the
\* 0-based slice, which is element len-n+1 of the 1-based sequence
\* (_FromStart: a faulty variant counting from the oldest snapshot)
selectIndex_FromStart(m, k) == k
selectIndex(m, k) == Len(m) - k + 1

\* the catalogs of the latest k successful Closes, latest last
Remember(h, tbl, k) ==
    IF Len(h) < k THEN Append(h, tbl) ELSE Append(Tail(h), tbl)

\* ---------------------------------------------------------- the scenario
\* Test_Client: four runs of New(dir, 3), Insert into one table, Close; then
\* Deduplicate and RollbackSnapshot(1).  (The test opens its last Clients
\* with retention 2; they never rotate, and 1 <= 2 as 1 <= 3.)
ScenN == 3         \* New(dir, 3)
ScenRuns == 4      \* the four insert-and-close runs, after which t holds 4 rows
ScenInsert == [op |-> "Insert", table |-> "t", stream |-> <<"a">>, n |-> 0]
ScenClose == [op |-> "Close", table |-> "", stream |-> <<>>, n |-> 0]
ScenDedup == [op |-> "Deduplicate", table |-> "t", stream |-> <<>>, n |-> 0]
ScenRollback == [op |-> "RollbackSnapshot", table |-> "", stream |-> <<>>, n |-> 1]
Script == <<ScenInsert, ScenClose, ScenInsert, ScenClose, ScenInsert, ScenClose,
            ScenInsert, ScenClose, ScenDedup, ScenRollback>>

\* the scenario advances when the operation that returns is its next step
\* and succeeded; a failed step abandons it (require.NoError)
Advance(s, c, e) ==
    IF s >= 0 /\ s < Len(Script) /\ e = "" /\ c = Script[s + 1]
    THEN s + 1 ELSE -1

\* ------------------------------------------------------------------ Init
\* a fresh root directory and the Client New(dir, n) returns for it
InitClient ==
    /\ tables = NoTables
    /\ snapshot = <<>>
    /\ ulid = 0
    /\ dbOpen = TRUE
    /\ mux = 0
    /\ closeHist = <<>>
    /\ closes = 0

InitCallers(C) ==
    /\ pc = [c \in Callers |-> IF c \in C THEN "idle" ELSE "absent"]
    /\ call = [c \in Callers |-> NoCall]
    /\ f = [c \in Callers |-> 0]
    /\ matches = [c \in Callers |-> <<>>]
    /\ err = [c \in Callers |-> ""]
    /\ temp = [c \in Callers |-> NoTemp]
    /\ pre = [c \in Callers |-> NoTables]

Init ==
    /\ InitClient
    /\ InitCallers({1})
    /\ n \in 1..MaxN
    /\ scen = -1
    /\ env = [inserts |-> Inserts, args |-> RollbackArgs, script |-> <<>>,
              maxId |-> MaxId, maxRows |-> MaxRows]

InitConc ==
    /\ InitClient
    /\ InitCallers({1, 2})
    /\ n = 1
    /\ scen = -1
    /\ env = [inserts |-> {<<"t", <<"a">>>>}, args |-> {0, 1, 2},
              script |-> <<>>, maxId |-> ConcMaxId, maxRows |-> ConcMaxRows]

\* two concurrent callers, one snapshot
InitFair ==
    /\ InitClient
    /\ InitCallers({1, 2})
    /\ n = 1
    /\ scen = -1
    /\ env = [inserts |-> {<<"t", <<"a">>>>}, args |-> {0, 1},
              script |-> <<>>, maxId |-> FairMaxId, maxRows |-> FairMaxRows]

InitScenario ==
    /\ InitClient
    /\ InitCallers({1})
    /\ n = ScenN
    /\ scen = 0
    /\ env = [inserts |-> Inserts, args |-> 0..(ScenN + 1), script |-> Script,
              maxId |-> ScenRuns, maxRows |-> ScenRuns]

\* --------------------------------------------------------------- helpers
\* the callers are free (no script), or follow the script: the next call
\* is the script's next step, and a failed step ends the run
Allowed(cl) ==
    \/ env.script = <<>>
    \/ /\ scen >= 0
       /\ \/ cl.op = "Query"
          \/ scen < Len(env.script) /\ cl = env.script[scen + 1]

\* a caller invokes an operation of the open Client
Calls(c, op, t, s, k, next) ==
    /\ pc[c] = "idle"
    /\ dbOpen
    /\ Allowed([op |-> op, table |-> t, stream |-> s, n |-> k])
    /\ call' = [call EXCEPT ![c] = [op |-> op, table |-> t, stream |-> s, n |-> k]]
    /\ pc' = [pc EXCEPT ![c] = next]

\* c.mux.Lock()
\* (_NoWait: a faulty variant that takes the gate although it is held)
Lock_NoWait(c, at, next) ==
    /\ pc[c] = at
    /\ mux' = c
    /\ pc' = [pc EXCEPT ![c] = next]
    /\ pre' = [pre EXCEPT ![c] = tables]
    /\ UNCHANGED <<tables, snapshot, ulid, n, dbOpen, call, f, matches,
                   err, temp, closeHist, closes, scen, env>>
Lock(c, at, next) ==
    /\ pc[c] = at
    /\ mux = 0
    /\ mux' = c
    /\ pc' = [pc EXCEPT ![c] = next]
    /\ pre' = [pre EXCEPT ![c] = tables]
    /\ UNCHANGED <<tables, snapshot, ulid, n, dbOpen, call, f, matches,
                   err, temp, closeHist, closes, scen, env>>

\* return e, running the deferred c.mux.Unlock()
\* (_QueryKeepsGate: a faulty variant in which Query's gate is released by
\*  closing its cursor; _LeaksOnError: one that unlocks before a nil return
\*  only)
Returns_QueryKeepsGate(c, e) ==
    /\ mux' = IF call[c].op = "Query" THEN mux ELSE 0
    /\ err' = [err EXCEPT ![c] = e]
    /\ pc' = [pc EXCEPT ![c] = "done"]
Returns_LeaksOnError(c, e) ==
    /\ mux' = IF e = "" THEN 0 ELSE mux
    /\ err' = [err EXCEPT ![c] = e]
    /\ pc' = [pc EXCEPT ![c] = "done"]
Returns(c, e) ==
    /\ mux' = 0
    /\ err' = [err EXCEPT ![c] = e]
    /\ pc' = [pc EXCEPT ![c] = "done"]

\* defer os.Remove(f.Name()) / defer os.RemoveAll(dir): what is left of the
\* temporary resource t when the function that made it returns e
\* (_OnSuccessOnly: a faulty variant that cleans up before a nil return only)
deferredRemove_OnSuccessOnly(t, e) == IF e = "" THEN NoTemp ELSE t
deferredRemove(t, e) == NoTemp

\* --------------------------------------------------------------- Insert
InsertCall(c) ==
    /\ \E i \in env.inserts : Calls(c, "Insert", i[1], i[2], 0, "insert_lock")
    /\ UNCHANGED <<tables, snapshot, ulid, n, dbOpen, mux, f, matches, err,
                   temp, pre, closeHist, closes, scen, env>>

InsertLock(c) == Lock(c, "insert_lock", "insert_stage")

\* f, err := os.CreateTemp("", "insert")
InsertStage(c) ==
    /\ pc[c] = "insert_stage"
    /\ \/ /\ temp' = [temp EXCEPT ![c] = "insert"]
          /\ pc' = [pc EXCEPT ![c] = "insert"]
          /\ UNCHANGED <<mux, err, scen>>
       \/ /\ Returns(c, "stage")
          /\ scen' = -1
          /\ UNCHANGED temp
    /\ UNCHANGED <<tables, snapshot, ulid, n, dbOpen, call, f, matches,
                   pre, closeHist, closes, env>>

\* io.Copy(f, r); tableExists; CREATE TABLE ... or COPY ...
Insert(c) ==
    /\ pc[c] = "insert"
    /\ \/ /\ dbOpen
          /\ Stored(insert(tables, call[c].table, call[c].stream)) <= env.maxRows
          /\ tables' = insert(tables, call[c].table, call[c].stream)
          /\ temp' = [temp EXCEPT ![c] = deferredRemove(@, "")]
          /\ Returns(c, "")
          /\ scen' = Advance(scen, call[c], "")
       \/ /\ \E e \in {"stage", "exec"} :
                /\ Returns(c, e)
                /\ temp' = [temp EXCEPT ![c] = deferredRemove(@, e)]
          /\ tables' = tables
          /\ scen' = -1
    /\ UNCHANGED <<snapshot, ulid, n, dbOpen, call, f, matches,
                   pre, closeHist, closes, env>>

\* ---------------------------------------------------------------- Query
QueryCall(c) ==
    /\ Calls(c, "Query", "", <<>>, 0, "query_lock")
    /\ UNCHANGED <<tables, snapshot, ulid, n, dbOpen, mux, f, matches, err,
                   temp, pre, closeHist, closes, scen, env>>

QueryLock(c) == Lock(c, "query_lock", "query")

\* return c.db.QueryContext(ctx, stmt): on success the caller holds the
\* cursor, unread, until it goes on (Return)
Query(c) ==
    /\ pc[c] = "query"
    /\ \/ dbOpen /\ Returns(c, "")
       \/ Returns(c, "exec")
    /\ UNCHANGED <<tables, snapshot, ulid, n, dbOpen, call, f, matches,
                   temp, pre, closeHist, closes, scen, env>>

\* ----------------------------------------------------------- Deduplicate
DeduplicateCall(c) ==
    /\ \E t \in TableNames : Calls(c, "Deduplicate", t, <<>>, 0, "dedup_lock")
    /\ UNCHANGED <<tables, snapshot, ulid, n, dbOpen, mux, f, matches, err,
                   temp, pre, closeHist, closes, scen, env>>

DeduplicateLock(c) == Lock(c, "dedup_lock", "dedup")

Deduplicate(c) ==
    /\ pc[c] = "dedup"
    /\ \/ /\ dbOpen
          /\ call[c].table \in DOMAIN tables
          /\ tables' = dedup(tables, call[c].table)
          /\ Returns(c, "")
          /\ scen' = Advance(scen, call[c], "")
       \/ /\ Returns(c, "exec")
          /\ tables' = tables
          /\ scen' = -1
    /\ UNCHANGED <<snapshot, ulid, n, dbOpen, call, f, matches,
                   temp, pre, closeHist, closes, env>>

\* ---------------------------------------------------------------- Close
\* id := ulid.MustNewDefault(...); f, err := os.Create(snapshot/id)
CloseCall(c) ==
    /\ ulid < env.maxId
    /\ ulid' = ulid + 1
    /\ \/ /\ Calls(c, "Close", "", <<>>, 0, "close_lock")
          /\ snapshot' = [x \in DOMAIN snapshot \cup {ulid + 1} |->
                            IF x = ulid + 1 THEN EmptyFile ELSE snapshot[x]]
          /\ f' = [f EXCEPT ![c] = ulid + 1]
          /\ UNCHANGED <<err, scen>>
       \/ /\ Calls(c, "Close", "", <<>>, 0, "done")
          /\ err' = [err EXCEPT ![c] = "create"]
          /\ scen' = -1
          /\ UNCHANGED <<snapshot, f>>
    /\ UNCHANGED <<tables, n, dbOpen, mux, matches, temp, pre,
                   closeHist, closes, env>>

CloseLock(c) == Lock(c, "close_lock", "close_tmp")

\* dumpAndZip: dir, err := os.MkdirTemp("", "dump")
CloseMkdirTemp(c) ==
    /\ pc[c] = "close_tmp"
    /\ \/ /\ temp' = [temp EXCEPT ![c] = "dump"]
          /\ pc' = [pc EXCEPT ![c] = "close_dump"]
          /\ UNCHANGED <<mux, err, scen>>
       \/ /\ Returns(c, "dump")
          /\ scen' = -1
          /\ UNCHANGED temp
    /\ UNCHANGED <<tables, snapshot, ulid, n, dbOpen, call, f, matches,
                   pre, closeHist, closes, env>>

\* the step Close takes after the step at position `at` succeeded: dump,
\* rotate, release
\* (_SkipsRotate: a faulty variant that releases the engine right after the
\*  dump)
closeNext_SkipsRotate(at) == "close_db"
closeNext(at) == IF at = "close_dump" THEN "close_rotate" ELSE "close_db"

\* dumpAndZip: EXPORT DATABASE, zip into f; then f.Close()
CloseDump(c) ==
    /\ pc[c] = "close_dump"
    /\ \/ /\ dbOpen
          /\ snapshot' = Written(snapshot, f[c], dumpAndZip(tables))
          /\ temp' = [temp EXCEPT ![c] = deferredRemove(@, "")]
          /\ pc' = [pc EXCEPT ![c] = closeNext("close_dump")]
          /\ UNCHANGED <<mux, err, scen>>
       \/ /\ Returns(c, "dump")
          /\ temp' = [temp EXCEPT ![c] = deferredRemove(@, "dump")]
          /\ UNCHANGED snapshot
          /\ scen' = -1
       \/ /\ dbOpen
          /\ snapshot' = Written(snapshot, f[c], dumpAndZip(tables))
          /\ temp' = [temp EXCEPT ![c] = deferredRemove(@, "")]
          /\ Returns(c, "fclose")
          /\ scen' = -1
    /\ UNCHANGED <<tables, ulid, n, dbOpen, call, f, matches,
                   pre, closeHist, closes, env>>

\* rotate(snapshot, c.n): listDir, then os.Remove of each victim until one
\* fails
CloseRotate(c) ==
    /\ pc[c] = "close_rotate"
    /\ \/ /\ matches' = [matches EXCEPT ![c] = listDir(snapshot)]
          /\ LET victims == rotateVictims(listDir(snapshot), n)
             IN \E k \in 0..Len(victims) :
                  /\ snapshot' = RemoveFirst(snapshot, victims, k)
                  /\ IF k = Len(victims)
                     THEN /\ pc' = [pc EXCEPT ![c] = closeNext("close_rotate")]
                          /\ UNCHANGED <<mux, err, scen>>
                     ELSE /\ Returns(c, "rotate")
                          /\ scen' = -1
       \/ /\ Returns(c, "rotate")
          /\ scen' = -1
          /\ UNCHANGED <<matches, snapshot>>
    /\ UNCHANGED <<tables, ulid, n, dbOpen, call, f, temp, pre,
                   closeHist, closes, env>>

\* c.db.Close(); c.connecter.Close()
CloseDb(c) ==
    /\ pc[c] = "close_db"
    /\ dbOpen' = FALSE
    /\ \/ /\ Returns(c, "")
          /\ closeHist' = Remember(closeHist, tables, n)
          /\ closes' = closes + 1
          /\ scen' = Advance(scen, call[c], "")
       \/ /\ Returns(c, "dbclose")
          /\ scen' = -1
          /\ UNCHANGED <<closeHist, closes>>
    /\ UNCHANGED <<tables, snapshot, ulid, n, call, f, matches, temp, pre, env>>

\* New(dir, n) on the same root, once the previous Client is closed
New ==
    /\ ~dbOpen
    /\ \A c \in Callers : pc[c] \in {"idle", "absent"}
    /\ dbOpen' = TRUE
    /\ UNCHANGED <<tables, snapshot, ulid, n, mux, pc, call, f, matches,
                   err, temp, pre, closeHist, closes, scen, env>>

\* ----------------------------------------------------- RollbackSnapshot
\* if n > c.n { return fmt.Errorf("cannot rollback ...") }
RollbackSnapshotCall(c) ==
    /\ \E k \in env.args :
         IF tooFar(k, n)
         THEN /\ Calls(c, "RollbackSnapshot", "", <<>>, k, "done")
              /\ err' = [err EXCEPT ![c] = "InvalidArgument"]
              /\ scen' = -1
         ELSE /\ Calls(c, "RollbackSnapshot", "", <<>>, k, "rb_lock")
              /\ UNCHANGED <<err, scen>>
    /\ UNCHANGED <<tables, snapshot, ulid, n, dbOpen, mux, f, matches,
                   temp, pre, closeHist, closes, env>>

RollbackSnapshotLock(c) == Lock(c, "rb_lock", "rb_list")

\* matches, err := listDir(snapshot); if len(matches) == 0 { return error }
RollbackSnapshotList(c) ==
    /\ pc[c] = "rb_list"
    /\ \/ /\ matches' = [matches EXCEPT ![c] = listDir(snapshot)]
          /\ IF Len(listDir(snapshot)) = 0
             THEN Returns(c, "NotFound") /\ scen' = -1
             ELSE /\ pc' = [pc EXCEPT ![c] = "rb_drop"]
                  /\ UNCHANGED <<mux, err, scen>>
       \/ /\ Returns(c, "list")
          /\ scen' = -1
          /\ UNCHANGED matches
    /\ UNCHANGED <<tables, snapshot, ulid, n, dbOpen, call, f,
                   temp, pre, closeHist, closes, env>>

\* showTables; BeginTx; DROP TABLE of each table; Commit (deferred Rollback):
\* k statements succeed, then either all is committed or an error returns
RollbackSnapshotDrop(c) ==
    /\ pc[c] = "rb_drop"
    /\ LET names == showTables(tables)
       IN \E k \in 0..Len(names), committed \in BOOLEAN :
            /\ committed => (k = Len(names) /\ dbOpen)
            /\ tables' = txEnd(tables, DropTables(tables, names, k), committed)
            /\ IF committed
               THEN /\ pc' = [pc EXCEPT ![c] = "rb_load"]
                    /\ UNCHANGED <<mux, err, scen>>
               ELSE Returns(c, "drop") /\ scen' = -1
    /\ UNCHANGED <<snapshot, ulid, n, dbOpen, call, f, matches,
                   temp, pre, closeHist, closes, env>>

\* matches[len(matches)-n], then unzipAndLoad: dir, err := os.MkdirTemp("", "load")
RollbackSnapshotLoad(c) ==
    /\ pc[c] = "rb_load"
    /\ IF selectIndex(matches[c], call[c].n) \notin 1..Len(matches[c])
       THEN \* index out of range: the goroutine panics, the deferred
            \* Unlock runs
            /\ mux' = 0
            /\ err' = [err EXCEPT ![c] = "panic"]
            /\ pc' = [pc EXCEPT ![c] = "panicked"]
            /\ scen' = -1
            /\ UNCHANGED temp
       ELSE \/ /\ temp' = [temp EXCEPT ![c] = "load"]
               /\ pc' = [pc EXCEPT ![c] = "rb_import"]
               /\ UNCHANGED <<mux, err, scen>>
            \/ /\ Returns(c, "load")
               /\ scen' = -1
               /\ UNCHANGED temp
    /\ UNCHANGED <<tables, snapshot, ulid, n, dbOpen, call, f, matches,
                   pre, closeHist, closes, env>>

\* unzipAndLoad: zip.OpenReader(file), extract into dir, IMPORT DATABASE
RollbackSnapshotImport(c) ==
    /\ pc[c] = "rb_import"
    /\ LET file == matches[c][selectIndex(matches[c], call[c].n)]
           loaded == unzipAndLoad(snapshot, file)
       IN /\ snapshot' = loaded.dir
          /\ \/ /\ dbOpen
                /\ snapshot[file].complete
                /\ tables' = loaded.tables
                /\ temp' = [temp EXCEPT ![c] = deferredRemove(@, "")]
                /\ Returns(c, "")
                /\ scen' = Advance(scen, call[c], "")
             \/ /\ ~snapshot[file].complete
                /\ Returns(c, "CorruptArchive")
                /\ temp' = [temp EXCEPT ![c] = deferredRemove(@, "CorruptArchive")]
                /\ scen' = -1
                /\ UNCHANGED tables
             \/ /\ Returns(c, "load")
                /\ temp' = [temp EXCEPT ![c] = deferredRemove(@, "load")]
                /\ scen' = -1
                /\ UNCHANGED tables
    /\ UNCHANGED <<ulid, n, dbOpen, call, f, matches,
                   pre, closeHist, closes, env>>

\* a finished caller goes on to its next call (a panic is taken to be
\* recovered by the caller; a cursor it got from Query is closed)
Return(c) ==
    /\ pc[c] \in {"done", "panicked"}
    /\ pc' = [pc EXCEPT ![c] = "idle"]
    /\ call' = [call EXCEPT ![c] = NoCall]
    /\ f' = [f EXCEPT ![c] = 0]
    /\ matches' = [matches EXCEPT ![c] = <<>>]
    /\ err' = [err EXCEPT ![c] = ""]
    /\ pre' = [pre EXCEPT ![c] = NoTables]
    /\ UNCHANGED <<tables, snapshot, ulid, n, dbOpen, mux, temp,
                   closeHist, closes, scen, env>>

\* the steps a caller takes to acquire the gate, and its other steps
Acquire(c) ==
    \/ InsertLock(c) \/ QueryLock(c) \/ DeduplicateLock(c)
    \/ CloseLock(c) \/ RollbackSnapshotLock(c)

Proceed(c) ==
    \/ InsertStage(c) \/ Insert(c) \/ Query(c) \/ Deduplicate(c)
    \/ CloseMkdirTemp(c) \/ CloseDump(c) \/ CloseRotate(c) \/ CloseDb(c)
    \/ RollbackSnapshotList(c) \/ RollbackSnapshotDrop(c)
    \/ RollbackSnapshotLoad(c) \/ RollbackSnapshotImport(c)

Next ==
    \/ New
    \/ \E c \in Callers :
        \/ InsertCall(c) \/ InsertLock(c) \/ InsertStage(c) \/ Insert(c)
        \/ QueryCall(c) \/ QueryLock(c) \/ Query(c)
        \/ DeduplicateCall(c) \/ DeduplicateLock(c) \/ Deduplicate(c)
        \/ CloseCall(c) \/ CloseLock(c) \/ CloseMkdirTemp(c) \/ CloseDump(c)
        \/ CloseRotate(c) \/ CloseDb(c)
        \/ RollbackSnapshotCall(c) \/ RollbackSnapshotLock(c)
        \/ RollbackSnapshotList(c) \/ RollbackSnapshotDrop(c)
        \/ RollbackSnapshotLoad(c) \/ RollbackSnapshotImport(c)
        \/ Return(c)

\* a goroutine that can take a step takes it (the Go scheduler), and one
\* waiting at c.mux.Lock() gets the gate if it is free again and again
\* (sync.Mutex hands the lock to a starving waiter)
Fairness ==
    \A c \in Callers : WF_vars(Proceed(c)) /\ SF_vars(Acquire(c))

Spec == Init /\ [][Next]_vars
SpecConc == InitConc /\ [][Next]_vars
SpecScenario == InitScenario /\ [][Next]_vars
SpecFair == InitFair /\ [][Next]_vars /\ Fairness

\* ================================================================ claims
Finished(c, op) == pc[c] = "done" /\ call[c].op = op
InClose(c) == call[c].op = "Close" /\ pc[c] # "done"
Quiet == \A c \in Callers : pc[c] \in {"idle", "done", "absent"}
Entries == Cardinality(DOMAIN snapshot)

\* the k greatest elements of S
Greatest(S, k) == {x \in S : Cardinality({y \in S : y > x}) < k}

\* C1: when Close has returned nil, the snapshot it wrote is in the snapshot
\* directory, and the directory holds the n lexicographically greatest of the
\* names rotate listed (rotate removed exactly the oldest ones).
C1_RotateKeepsNewest ==
    \A c \in Callers :
        (Finished(c, "Close") /\ err[c] = "")
            => /\ f[c] \in DOMAIN snapshot
               /\ DOMAIN snapshot = Greatest(Range(matches[c]), n)

\* C2: when no Close is under way and every Close so far succeeded, the
\* snapshot directory holds exactly min(M, N) entries, M the number of Closes.
C2_SnapshotCount ==
    ((\A c \in Callers : ~InClose(c)) /\ ulid = closes)
        => Entries = Min(closes, n)

C2_Witness ==
    /\ \A c \in Callers : ~InClose(c)
    /\ ulid = closes
    /\ closes > n
    /\ n > 1
    /\ Entries = n

\* C3: when every Close so far succeeded (M of them) and RollbackSnapshot(k)
\* has returned nil, with 1 <= k <= min(M, N), the catalog is the one
\* captured by the k-th most recent Close.
C3_RollbackRestoresKthLatest ==
    \A c \in Callers :
        ( /\ Finished(c, "RollbackSnapshot")
          /\ err[c] = ""
          /\ ulid = closes
          /\ call[c].n >= 1
          /\ call[c].n <= Min(closes, n) )
            => tables = closeHist[Len(closeHist) - call[c].n + 1]

\* C4: in the scenario of Test_Client (retention 3; one record inserted into
\* t before each of four Closes, then Deduplicate(t), then
\* RollbackSnapshot(1)) the snapshot counts are 1, 2, 3, 3, t holds 4 rows
\* after the fourth Close, 1 row after Deduplicate and 3 rows after the
\* rollback.
C4_Scenario ==
    /\ scen \in {2, 3} => (Quiet => Entries = 1)
    /\ scen \in {4, 5} => (Quiet => Entries = 2)
    /\ scen \in {6, 7} => (Quiet => Entries = 3)
    /\ scen >= 8 => Entries = 3
    /\ (scen = 6 /\ Quiet) => RowCount(tables, "t") = 3
    /\ (scen = 8 /\ Quiet) => RowCount(tables, "t") = 4
    /\ (scen = 9 /\ Quiet) => RowCount(tables, "t") = 1
    /\ (scen = 10 /\ Quiet) => RowCount(tables, "t") = 3

C4_Witness ==
    /\ scen = 10
    /\ Quiet
    /\ RowCount(tables, "t") = 3
    /\ Entries = 3

\* C5: when Close has returned the error of its dump step, the snapshot
\* directory holds no entry the call added: the file the call created is gone.
C5_FailedDumpLeavesNoFile ==
    \A c \in Callers :
        (Finished(c, "Close") /\ err[c] = "dump") => f[c] \notin DOMAIN snapshot

\* C6: RollbackSnapshot(k) with k <= 0 never gets as far as dropping the
\* tables, never panics, and returns the InvalidArgument error.
C6_RejectsNonPositive ==
    \A c \in Callers :
        (call[c].op = "RollbackSnapshot" /\ call[c].n <= 0)
            => /\ pc[c] \notin {"rb_load", "panicked"}
               /\ pc[c] = "done" => err[c] = "InvalidArgument"

\* C7: RollbackSnapshot(k) with k > N returns an error in the step that calls
\* it, and that step leaves the catalog and the snapshot directory unchanged.
C7_RollbackBeyondRetention ==
    [][\A c \in Callers :
          (call'[c].op = "RollbackSnapshot" /\ call'[c].n > n')
              => /\ pc'[c] = "done"
                 /\ err'[c] = "InvalidArgument"
                 /\ pc[c] = "idle" => (tables' = tables /\ snapshot' = snapshot)]_vars

C7_Witness ==
    \E c \in Callers :
        /\ Finished(c, "RollbackSnapshot")
        /\ call[c].n > n
        /\ err[c] = "InvalidArgument"
        /\ DOMAIN tables = TableNames
        /\ Entries > 0

\* the positions between c.mux.Lock() and the deferred c.mux.Unlock(), at
\* which an operation reads or writes the engine handle
Gated == {"insert_stage", "insert", "query", "dedup", "close_tmp",
          "close_dump", "close_rotate", "close_db",
          "rb_list", "rb_drop", "rb_load", "rb_import"}

\* C8: a caller that is at an engine call of a public operation holds the
\* gate, so at most one caller is at an engine call at any time.
C8_EngineCallsGated ==
    /\ \A c \in Callers : pc[c] \in Gated => mux = c
    /\ Cardinality({c \in Callers : pc[c] \in Gated}) <= 1

C8_Witness ==
    \E c, d \in Callers :
        /\ pc[c] = "insert"
        /\ pc[d] = "rb_lock"
        /\ mux = c

\* C9: the listing RollbackSnapshot took never names the file of a Close that
\* has not yet written its archive.
C9_ListingHasNoUnwrittenFile ==
    \A c, d \in Callers :
        ( /\ call[c].op = "RollbackSnapshot"
          /\ pc[c] \in {"rb_drop", "rb_load"}
          /\ call[d].op = "Close"
          /\ pc[d] \in {"close_lock", "close_tmp", "close_dump"} )
            => f[d] \notin Range(matches[c])

\* C10: a step of RollbackSnapshot other than the committed drop and the load
\* leaves the catalog as it is; when the drop fails the operation returns the
\* error at once, without loading.
C10_DropAllOrNothing ==
    [][\A c \in Callers :
          /\ ( /\ call'[c].op = "RollbackSnapshot"
               /\ pc'[c] # pc[c]
               /\ pc[c] # "rb_import"
               /\ pc'[c] # "rb_load" ) => tables' = tables
          /\ (pc[c] = "rb_drop" /\ pc'[c] # "rb_load")
                => (pc'[c] = "done" /\ err'[c] = "drop")]_vars

C10_Witness ==
    \E c \in Callers :
        /\ Finished(c, "RollbackSnapshot")
        /\ err[c] = "drop"
        /\ DOMAIN tables = TableNames

\* C11: when rotate has returned nil (every deletion succeeded), running
\* rotate again on the directory it left would remove nothing and leave the
\* same entries.
C11_RotateIdempotent ==
    \A c \in Callers :
        pc[c] = "close_db"
            => LET again == rotateVictims(listDir(snapshot), n)
               IN /\ again = <<>>
                  /\ RemoveFirst(snapshot, again, Len(again)) = snapshot

C11_Witness ==
    \E c \in Callers :
        /\ pc[c] = "close_db"
        /\ Len(matches[c]) >= n + 2
        /\ Entries = n

\* the copies of record r in the stream s
Copies(s, r) == Cardinality({i \in DOMAIN s : s[i] = r})

\* the copies of record r the table t held in the catalog tbl
Held(tbl, t, r) == IF t \in DOMAIN tbl THEN tbl[t][r] ELSE 0

\* C12: when Insert(t, records) has returned nil, t exists and holds, of every
\* record, the copies it held when the call took the gate (none if it did not
\* exist) plus one per occurrence in the input; so its row count grew by the
\* number of input records.
C12_InsertCreatesOrAppends ==
    \A c \in Callers :
        (Finished(c, "Insert") /\ err[c] = "")
            => /\ call[c].table \in DOMAIN tables
               /\ \A r \in Records :
                     tables[call[c].table][r]
                        = Held(pre[c], call[c].table, r) + Copies(call[c].stream, r)
               /\ RowCount(tables, call[c].table)
                     = RowCount(pre[c], call[c].table) + Len(call[c].stream)

C12_Witness ==
    \E c \in Callers :
        /\ Finished(c, "Insert")
        /\ err[c] = ""
        /\ call[c].table = "t"
        /\ RowCount(pre[c], "t") = 2
        /\ RowCount(tables, "t") = 3

\* C13: when Deduplicate(t) has returned nil, t holds one copy of every record
\* it held at least once when the call took the gate and nothing else, every
\* other table is as it was, a table that held no record twice is unchanged,
\* and deduplicating the result again would change nothing.
C13_DeduplicateDistinct ==
    \A c \in Callers :
        (Finished(c, "Deduplicate") /\ err[c] = "")
            => /\ DOMAIN tables = DOMAIN pre[c]
               /\ \A r \in Records :
                     tables[call[c].table][r]
                        = IF pre[c][call[c].table][r] >= 1 THEN 1 ELSE 0
               /\ \A x \in DOMAIN tables \ {call[c].table} : tables[x] = pre[c][x]
               /\ (\A r \in Records : pre[c][call[c].table][r] <= 1)
                     => tables = pre[c]
               /\ dedup(tables, call[c].table) = tables

C13_Witness ==
    \E c \in Callers :
        /\ Finished(c, "Deduplicate")
        /\ err[c] = ""
        /\ call[c].table = "t"
        /\ RowCount(pre[c], "t") = 3
        /\ RowCount(tables, "t") = 1

\* C14: a caller has a temporary file or directory on disk only while it is
\* inside the function that made it: none is left when insert, dumpAndZip or
\* unzipAndLoad has returned, whatever it returned.
C14_TemporariesRemoved ==
    \A c \in Callers :
        /\ temp[c] = "insert" => pc[c] = "insert"
        /\ temp[c] = "dump" => pc[c] = "close_dump"
        /\ temp[c] = "load" => pc[c] = "rb_import"
        /\ pc[c] \in {"idle", "done", "panicked"} => temp[c] = NoTemp

C14_Witness ==
    \E c \in Callers :
        /\ Finished(c, "RollbackSnapshot")
        /\ err[c] = "CorruptArchive"
        /\ temp[c] = NoTemp

\* C15: when RollbackSnapshot(k) with k >= 1 has committed the drop, the
\* listing it took has a k-th entry from the end: the index it is about to
\* use lies within the listing (stated for directories written by successful
\* Closes only).
C15_SelectedSnapshotExists ==
    \A c \in Callers :
        (pc[c] = "rb_load" /\ call[c].n >= 1 /\ ulid = closes)
            => selectIndex(matches[c], call[c].n) \in 1..Len(matches[c])

\* C16: from the committed drop on, and when RollbackSnapshot has failed at
\* or after selecting the snapshot, the database holds no table: the tables
\* dropped are not put back.
C16_FailedLoadLeavesEmpty ==
    \A c \in Callers :
        call[c].op = "RollbackSnapshot"
            => /\ pc[c] \in {"rb_load", "rb_import", "panicked"} => tables = NoTables
               /\ (pc[c] = "done" /\ err[c] \in {"load", "CorruptArchive"})
                     => tables = NoTables

C16_Witness ==
    \E c \in Callers :
        /\ Finished(c, "RollbackSnapshot")
        /\ err[c] = "load"
        /\ DOMAIN pre[c] = TableNames
        /\ tables = NoTables

\* C17: the engine handle is released only by the last step of a Close whose
\* rotate has run and succeeded and whose snapshot file, if rotate left it,
\* holds the complete archive; a Close that returns the error of the dump,
\* of closing the file or of rotate leaves the handle open.
C17_CloseOrder ==
    [][/\ (dbOpen /\ ~dbOpen')
            => \E c \in Callers :
                 /\ pc[c] = "close_db"
                 /\ f[c] \in Range(matches[c])
                 /\ rotateVictims(listDir(snapshot), n) = <<>>
                 /\ f[c] \in DOMAIN snapshot => snapshot[f[c]].complete
       /\ \A c \in Callers :
            ( /\ call[c].op = "Close"
              /\ pc[c] # "done"
              /\ pc'[c] = "done"
              /\ err'[c] \in {"dump", "fclose", "rotate"} )
                => (dbOpen /\ dbOpen')]_vars

C17_Witness ==
    \E c \in Callers :
        /\ Finished(c, "Close")
        /\ err[c] = "rotate"
        /\ Len(matches[c]) > n
        /\ dbOpen

\* C18: a caller whose Query has returned, and who still holds the cursor,
\* does not hold the gate.
C18_GateFreeAfterQuery ==
    \A c \in Callers : Finished(c, "Query") => mux # c

\* while one caller holds the unread cursor of a Query, the other has taken
\* the gate on the catalog the Query saw, inserted, and returned
C18_Witness ==
    \E c, d \in Callers :
        /\ Finished(c, "Query")
        /\ err[c] = ""
        /\ Finished(d, "Insert")
        /\ err[d] = ""
        /\ pre[d] = pre[c]
        /\ tables # pre[c]

\* the positions at which a caller waits for the gate
LockWaits == {"insert_lock", "query_lock", "dedup_lock", "close_lock", "rb_lock"}

\* C19: the gate is held only by a caller between its Lock and its return
\* (never by one that has returned, panicked, or not yet locked), and under
\* fair scheduling a caller waiting for the gate gets it and its operation
\* ends.
C19_GateReleased ==
    /\ [](\A c \in Callers : mux = c => pc[c] \in Gated)
    /\ \A c \in Callers :
          (pc[c] \in LockWaits) ~> (pc[c] \in {"done", "panicked"})

\* a RollbackSnapshot has panicked and the other caller holds the gate
C19_Witness ==
    \E c, d \in Callers :
        /\ pc[c] = "panicked"
        /\ mux = d
        /\ pc[d] \in Gated

\* C20: a step of Insert, Query, Deduplicate or RollbackSnapshot leaves the
\* snapshot directory as it is, and when RollbackSnapshot returns nil the
\* directory still lists what the call listed and the snapshot it selected
\* holds the catalog it installed.
C20_OnlyCloseWritesSnapshots ==
    [][\A c \in Callers :
          /\ ( /\ call'[c].op \in {"Insert", "Query", "Deduplicate", "RollbackSnapshot"}
               /\ pc'[c] # pc[c] ) => snapshot' = snapshot
          /\ ( /\ pc[c] = "rb_import"
               /\ pc'[c] = "done"
               /\ err'[c] = "" )
                => /\ listDir(snapshot') = matches'[c]
                   /\ tables' = snapshot'[matches'[c][selectIndex(matches'[c], call'[c].n)]].data]_vars

C20_Witness ==
    \E c \in Callers :
        /\ Finished(c, "RollbackSnapshot")
        /\ err[c] = ""
        /\ call[c].n = 2
        /\ Len(matches[c]) = 2
        /\ listDir(snapshot) = matches[c]
        /\ tables # pre[c]

====
